---- MODULE Spec2Model ----
(***************************************************************************)
(* Model of src/scraper.js: a puppeteer script that collects job links     *)
(* from a search page, visits each link on one shared page, extracts four  *)
(* text fields, normalises the description, closes the browser and writes  *)
(* the records as CSV to jobsData.csv.                                     *)
(*                                                                         *)
(* Strings are sequences of one-character strings, so that the regular     *)
(* expressions, trim() and join() are computed character by character.     *)
(***************************************************************************)
EXTENDS Integers, Sequences, FiniteSets, TLC

\* ------------------------------------------------------------------------
\* Bounds of the model
\* ------------------------------------------------------------------------
MaxLinks == 3   \* longest list of links the search page yields
MaxFrags == 3   \* number of fragments a description text is built from

\* ------------------------------------------------------------------------
\* Characters
\* ------------------------------------------------------------------------
\* \s of a JavaScript regular expression, and the characters trim() strips
WhiteSpace == {" ", "\n", "\t", "\r"}

\* \w of a JavaScript regular expression: [A-Za-z0-9_]
WordChar ==
  {"a","b","c","d","e","f","g","h","i","j","k","l","m",
   "n","o","p","q","r","s","t","u","v","w","x","y","z",
   "A","B","C","D","E","F","G","H","I","J","K","L","M",
   "N","O","P","Q","R","S","T","U","V","W","X","Y","Z",
   "0","1","2","3","4","5","6","7","8","9","_"}

ShowMore == <<"S","h","o","w"," ","m","o","r","e">>
ShowLess == <<"S","h","o","w"," ","l","e","s","s">>
TokenLen == 9

\* ------------------------------------------------------------------------
\* String.prototype.trim
\* ------------------------------------------------------------------------
RECURSIVE TrimStart(_)
TrimStart(s) ==
  IF s = <<>> THEN <<>>
  ELSE IF Head(s) \in WhiteSpace THEN TrimStart(Tail(s)) ELSE s

RECURSIVE TrimEnd(_)
TrimEnd(s) ==
  IF s = <<>> THEN <<>>
  ELSE IF s[Len(s)] \in WhiteSpace THEN TrimEnd(SubSeq(s, 1, Len(s) - 1)) ELSE s

Trim(s) == TrimEnd(TrimStart(s))

\* ------------------------------------------------------------------------
\* .replace(/\s+/g, " ")
\* ------------------------------------------------------------------------
RECURSIVE CollapseWhitespace(_)
CollapseWhitespace(s) ==
  IF s = <<>> THEN <<>>
  ELSE IF Head(s) \in WhiteSpace
       THEN <<" ">> \o CollapseWhitespace(TrimStart(Tail(s)))
       ELSE <<Head(s)>> \o CollapseWhitespace(Tail(s))

\* ------------------------------------------------------------------------
\* .replace(/\b(Show more|Show less)\b/g, "")
\* ------------------------------------------------------------------------
IsWordAt(s, j) == j >= 1 /\ j <= Len(s) /\ s[j] \in WordChar

\* \b between s[i-1] and s[i]
WordBoundary(s, i) == IsWordAt(s, i - 1) # IsWordAt(s, i)

TokenAt(s, i) ==
  /\ i >= 1
  /\ i + TokenLen - 1 <= Len(s)
  /\ SubSeq(s, i, i + TokenLen - 1) \in {ShowMore, ShowLess}

\* the regular expression matches at position i of s
MatchAt(s, i) ==
  /\ TokenAt(s, i)
  /\ WordBoundary(s, i)
  /\ WordBoundary(s, i + TokenLen)

RECURSIVE StripFrom(_, _)
StripFrom(s, i) ==
  IF i > Len(s) THEN <<>>
  ELSE IF MatchAt(s, i) THEN StripFrom(s, i + TokenLen)
       ELSE <<s[i]>> \o StripFrom(s, i + 1)

\* the replacement without the g flag: only the first match is removed
RECURSIVE StripFirstFrom(_, _)
StripFirstFrom(s, i) ==
  IF i > Len(s) THEN <<>>
  ELSE IF MatchAt(s, i) THEN SubSeq(s, i + TokenLen, Len(s))
       ELSE <<s[i]>> \o StripFirstFrom(s, i + 1)

StripBoilerplateFirstOnly(s) == StripFirstFrom(s, 1)

StripBoilerplate(s) == StripFrom(s, 1)

\* job.description = job.description.replace(..).replace(..).trim()
normalize(s) == Trim(StripBoilerplate(CollapseWhitespace(s)))

\* ------------------------------------------------------------------------
\* The description texts the normaliser is checked on: up to MaxFrags
\* fragments, concatenated
\* ------------------------------------------------------------------------
Frags ==
  {ShowMore, ShowLess, <<"S","h","o","w">>, <<" ","m","o","r","e">>,
   <<"a"," ">>, <<" ">>, <<"\n">>, <<"a">>}

RECURSIVE Concat(_)
Concat(fs) == IF fs = <<>> THEN <<>> ELSE Head(fs) \o Concat(Tail(fs))

FragLists == UNION {[1..n -> Frags] : n \in 0..MaxFrags}

Texts == {Concat(fs) : fs \in FragLists}

\* ------------------------------------------------------------------------
\* convertToCsv
\* ------------------------------------------------------------------------
\* the selectors object of scrapeJobDetails: its keys in insertion order,
\* which is also the key order of every job object
selectors ==
  << <<"t","i","t","l","e">>,
     <<"c","o","m","p","a","n","y">>,
     <<"l","o","c","a","t","i","o","n">>,
     <<"d","e","s","c","r","i","p","t","i","o","n">> >>

NumKeys == Len(selectors)
DescriptionKey == 4

\* Array.prototype.join
RECURSIVE Join(_, _)
Join(parts, sep) ==
  IF parts = <<>> THEN <<>>
  ELSE IF Len(parts) = 1 THEN parts[1]
       ELSE parts[1] \o sep \o Join(Tail(parts), sep)

\* `"${row[key]}"` for each key, joined with ","
CsvRow(row) == Join([i \in 1..NumKeys |-> <<"\"">> \o row[i] \o <<"\"">>], <<",">>)

\* Object.keys(data[0]) throws a TypeError when data is empty
ConvertThrows(data) == data = <<>>

\* a job object is the sequence of its values, in the key order of selectors
convertToCsv(data) ==
  Join(<<Join(selectors, <<",">>)>> \o [i \in 1..Len(data) |-> CsvRow(data[i])],
       <<"\n">>)

\* number of newline-delimited lines of a document
RECURSIVE CountNewlines(_)
CountNewlines(doc) ==
  IF doc = <<>> THEN 0
  ELSE (IF Head(doc) = "\n" THEN 1 ELSE 0) + CountNewlines(Tail(doc))

NumLines(doc) == 1 + CountNewlines(doc)

\* ------------------------------------------------------------------------
\* The web the run sees: for each URL whether navigation succeeds, and for
\* each of the four selectors the textContent of the elements it matches
\* ------------------------------------------------------------------------
Urls == {"u1", "u2"}

TitleTexts == {<<"A">>, <<" ","a","\n","b"," ">>}
CompanyTexts == {<<"\n","B","\n">>}
LocationTexts == {<<"C">>}
DescTexts == {<<"D">>, <<"D","\n"," ","x"," ">> \o ShowMore \o <<" ","y","\n">> \o ShowLess}

MkPage(t, c, l, d) == [reachable |-> TRUE, els |-> << <<t>>, <<c>>, <<l>>, <<d>> >>]

GoodPages == {MkPage(f[1], f[2], f[3], f[4]) :
                f \in TitleTexts \X CompanyTexts \X LocationTexts \X DescTexts}

SomePage == MkPage(<<"A">>, <<"B">>, <<"C">>, <<"D">>)

\* pages on which one selector matches nothing
BrokenPages == {[SomePage EXCEPT !.els[i] = <<>>] : i \in 1..NumKeys}

UnreachablePage == [reachable |-> FALSE, els |-> [i \in 1..NumKeys |-> <<>>]]

Pages == GoodPages \cup BrokenPages \cup {UnreachablePage}

LinkLists == UNION {[1..n -> Urls] : n \in 0..MaxLinks}

OldFile == <<"o","l","d">>

VARIABLES
  pc,             \* position of main
  browser,        \* "none", "open" or "closed"
  loaderInterval, \* TRUE while the interval of showLoader is set
  web,            \* the pages behind the URLs
  jobLinks,       \* main: jobLinks
  idx,            \* number of links the for-of loop has taken from jobLinks
  pageUrl,        \* URL the shared page shows
  job,            \* scrapeJobDetails: the values of job read so far
  jobDetails,     \* main: jobDetails
  visited,        \* URLs scrapeJobDetails called page.goto with, in order
  csvData,        \* main: csvData
  file,           \* jobsData.csv: <<>> when absent, else <<contents>>
  fileBefore,     \* jobsData.csv as it was before the run
  console,        \* messages printed by console.log and console.error
  log,            \* the calls main made, in order
  writeResult,    \* outcome of fs.writeFile: "none", "ok" or "error"
  text,           \* normaliser check: textContent of the description element
  description,    \* normaliser check: job.description
  npc             \* normaliser check: "raw", "read" or "done"

mainVars == <<pc, browser, loaderInterval, web, jobLinks, idx, pageUrl, job, jobDetails,
              visited, csvData, file, fileBefore, console, log, writeResult>>
normVars == <<text, description, npc>>
vars == <<mainVars, normVars>>

\* ------------------------------------------------------------------------
\* main
\* ------------------------------------------------------------------------
MainInit ==
  /\ pc = "idle"
  /\ browser = "none"
  /\ loaderInterval = FALSE
  /\ jobLinks = <<>>
  /\ idx = 0
  /\ pageUrl = "about:blank"
  /\ job = <<>>
  /\ jobDetails = <<>>
  /\ visited = <<>>
  /\ csvData = <<>>
  /\ fileBefore = file
  /\ console = <<>>
  /\ log = <<>>
  /\ writeResult = "none"

NormIdle ==
  /\ text = <<>>
  /\ description = <<>>
  /\ npc = "off"

Init ==
  /\ web \in [Urls -> Pages]
  /\ file \in {<<>>, <<OldFile>>}
  /\ MainInit
  /\ NormIdle

\* const loaderInterval = showLoader(); const browser = await puppeteer.launch()
Start ==
  /\ pc = "idle"
  /\ loaderInterval' = TRUE
  /\ log' = Append(log, "launch")
  /\ pc' = "launch"
  /\ UNCHANGED <<browser, web, jobLinks, idx, pageUrl, job, jobDetails, visited, csvData,
                 file, fileBefore, console, writeResult, normVars>>

\* a rejected await: the rejection leaves main, nothing after it runs
Throw ==
  /\ pc' = "failed"
  /\ UNCHANGED <<browser, loaderInterval, web, jobLinks, idx, pageUrl, job, jobDetails,
                 visited, csvData, file, fileBefore, console, log, writeResult, normVars>>

LaunchOk ==
  /\ pc = "launch"
  /\ browser' = "open"
  /\ log' = Append(log, "newPage")
  /\ pc' = "newPage"
  /\ UNCHANGED <<loaderInterval, web, jobLinks, idx, pageUrl, job, jobDetails, visited,
                 csvData, file, fileBefore, console, writeResult, normVars>>

LaunchFails == pc = "launch" /\ Throw

\* const page = await browser.newPage(); page.goto(search URL)
NewPageOk ==
  /\ pc = "newPage"
  /\ log' = Append(log, "search")
  /\ pc' = "search"
  /\ UNCHANGED <<browser, loaderInterval, web, jobLinks, idx, pageUrl, job, jobDetails,
                 visited, csvData, file, fileBefore, console, writeResult, normVars>>

NewPageFails == pc = "newPage" /\ Throw

\* await page.goto(search URL); page.$$eval("a.base-card__full-link", ...)
SearchOk ==
  /\ pc = "search"
  /\ pageUrl' = "search"
  /\ log' = Append(log, "collect")
  /\ pc' = "collect"
  /\ UNCHANGED <<browser, loaderInterval, web, jobLinks, idx, job, jobDetails, visited,
                 csvData, file, fileBefore, console, writeResult, normVars>>

SearchFails == pc = "search" /\ Throw

\* the head of `for (const jobLink of jobLinks)`: with i links taken, either
\* the next link is taken and scrapeJobDetails called, or the loop ends
HasNextEarlyExit(links, i) == i + 1 < Len(links)

HasNext(links, i) == i < Len(links)

LoopIdx(links, i) == IF HasNext(links, i) THEN i + 1 ELSE i

\* the call made on reaching the head of the loop: page.goto(jobLink) of
\* scrapeJobDetails, or browser.close()
LoopCall(links, i) == IF HasNext(links, i) THEN "visit" ELSE "close"

LoopPc(links, i) == IF HasNext(links, i) THEN "goto" ELSE "close"

LoopVisited(links, i, vis) ==
  IF HasNext(links, i) THEN Append(vis, links[i + 1]) ELSE vis

\* const jobLinks = await page.$$eval(...); const jobDetails = []; loop head
CollectLinks ==
  /\ pc = "collect"
  /\ \E links \in LinkLists :
       /\ jobLinks' = links
       /\ jobDetails' = <<>>
       /\ idx' = LoopIdx(links, 0)
       /\ log' = Append(log, LoopCall(links, 0))
       /\ visited' = LoopVisited(links, 0, visited)
       /\ pc' = LoopPc(links, 0)
  /\ UNCHANGED <<browser, loaderInterval, web, pageUrl, job, csvData, file,
                 fileBefore, console, writeResult, normVars>>

CollectFails == pc = "collect" /\ Throw

\* scrapeJobDetails: await page.goto(jobLink, ...); page.waitForTimeout(5000)
GotoOk ==
  /\ pc = "goto"
  /\ web[jobLinks[idx]].reachable
  /\ pageUrl' = jobLinks[idx]
  /\ pc' = "wait"
  /\ UNCHANGED <<browser, loaderInterval, web, jobLinks, idx, job, jobDetails, visited,
                 csvData, file, fileBefore, console, log, writeResult, normVars>>

GotoFails ==
  /\ pc = "goto"
  /\ ~web[jobLinks[idx]].reachable
  /\ Throw

\* await page.waitForTimeout(5000); const job = {}; first page.$eval
WaitDone ==
  /\ pc = "wait"
  /\ job' = <<>>
  /\ pc' = "eval"
  /\ UNCHANGED <<browser, loaderInterval, web, jobLinks, idx, pageUrl, jobDetails, visited,
                 csvData, file, fileBefore, console, log, writeResult, normVars>>

\* page.$eval(selector, (el) => el.textContent.trim()) on the first match
EvalText(page, i) == Trim(Head(page.els[i]))

\* jobDetails.push(details)
PushFront(details, j) == <<j>> \o details

Push(details, j) == Append(details, j)

\* job[key] = await page.$eval(...); after the last key the description is
\* normalised, the job returned and pushed, and the loop head is reached
EvalOk ==
  /\ pc = "eval"
  /\ LET i == Len(job) + 1
         page == web[pageUrl]
         j == Append(job, EvalText(page, i))
         details == Push(jobDetails,
                         [j EXCEPT ![DescriptionKey] = normalize(j[DescriptionKey])])
     IN /\ page.els[i] # <<>>
        /\ IF i < NumKeys
           THEN /\ job' = j
                /\ pc' = "eval"
                /\ UNCHANGED <<jobDetails, idx, visited, log>>
           ELSE /\ job' = j
                /\ jobDetails' = details
                /\ idx' = LoopIdx(jobLinks, idx)
                /\ log' = Append(log, LoopCall(jobLinks, idx))
                /\ visited' = LoopVisited(jobLinks, idx, visited)
                /\ pc' = LoopPc(jobLinks, idx)
  /\ UNCHANGED <<browser, loaderInterval, web, jobLinks, pageUrl, csvData, file,
                 fileBefore, console, writeResult, normVars>>

\* a failed extraction that is caught, the link skipped and the loop resumed
EvalSkips ==
  /\ pc = "eval"
  /\ web[pageUrl].els[Len(job) + 1] = <<>>
  /\ idx' = LoopIdx(jobLinks, idx)
  /\ log' = Append(log, LoopCall(jobLinks, idx))
  /\ visited' = LoopVisited(jobLinks, idx, visited)
  /\ pc' = LoopPc(jobLinks, idx)
  /\ UNCHANGED <<browser, loaderInterval, web, jobLinks, pageUrl, job, jobDetails,
                 csvData, file, fileBefore, console, writeResult, normVars>>

\* page.$eval rejects when the selector matches nothing
EvalFails ==
  /\ pc = "eval"
  /\ web[pageUrl].els[Len(job) + 1] = <<>>
  /\ Throw

\* await browser.close(); clearInterval(loaderInterval); try { convertToCsv;
\* fs.writeFile(...) } catch (error) { console.error(...) }
CloseOk ==
  /\ pc = "close"
  /\ browser' = "closed"
  /\ loaderInterval' = FALSE
  /\ IF ConvertThrows(jobDetails)
     THEN /\ log' = log \o <<"clearInterval", "convertToCsv">>
          /\ console' = Append(console, "error")
          /\ pc' = "done"
          /\ UNCHANGED csvData
     ELSE /\ log' = log \o <<"clearInterval", "convertToCsv", "writeFile">>
          /\ csvData' = convertToCsv(jobDetails)
          /\ pc' = "write"
          /\ UNCHANGED console
  /\ UNCHANGED <<web, jobLinks, idx, pageUrl, job, jobDetails, visited, file, fileBefore,
                 writeResult, normVars>>

CloseFails == pc = "close" /\ Throw

\* await fs.writeFile("jobsData.csv", csvData, "utf-8"); console.log(...)
WriteOk ==
  /\ pc = "write"
  /\ file' = <<csvData>>
  /\ writeResult' = "ok"
  /\ console' = Append(console, "success")
  /\ pc' = "done"
  /\ UNCHANGED <<browser, loaderInterval, web, jobLinks, idx, pageUrl, job, jobDetails,
                 visited, csvData, fileBefore, log, normVars>>

\* a rejected fs.writeFile that is not caught
WriteFailsUncaught ==
  /\ pc = "write"
  /\ writeResult' = "error"
  /\ pc' = "failed"
  /\ UNCHANGED <<browser, loaderInterval, web, jobLinks, idx, pageUrl, job, jobDetails,
                 visited, csvData, file, fileBefore, console, log, normVars>>

\* fs.writeFile rejects: catch (error) { console.error(...) }; the file is
\* untouched or was already truncated
WriteFails ==
  /\ pc = "write"
  /\ file' \in {file, << <<>> >>}
  /\ writeResult' = "error"
  /\ console' = Append(console, "error")
  /\ pc' = "done"
  /\ UNCHANGED <<browser, loaderInterval, web, jobLinks, idx, pageUrl, job, jobDetails,
                 visited, csvData, fileBefore, log, normVars>>

Next ==
  \/ Start
  \/ LaunchOk
  \/ LaunchFails
  \/ NewPageOk
  \/ NewPageFails
  \/ SearchOk
  \/ SearchFails
  \/ CollectLinks
  \/ CollectFails
  \/ GotoOk
  \/ GotoFails
  \/ WaitDone
  \/ EvalOk
  \/ EvalFails
  \/ CloseOk
  \/ CloseFails
  \/ WriteOk
  \/ WriteFails

Spec == Init /\ [][Next]_vars

\* ------------------------------------------------------------------------
\* The path of the description through scrapeJobDetails, on its own, for
\* every text of Texts
\* ------------------------------------------------------------------------
InitNorm ==
  /\ web = [u \in Urls |-> UnreachablePage]
  /\ file = <<>>
  /\ MainInit
  /\ text \in Texts
  /\ description = <<>>
  /\ npc = "raw"

\* job.description = await page.$eval(selector, (el) => el.textContent.trim())
EvalDescription ==
  /\ npc = "raw"
  /\ description' = Trim(text)
  /\ npc' = "read"
  /\ UNCHANGED <<text, mainVars>>

\* job.description = job.description.replace(...).replace(...).trim()
NormalizeDescription ==
  /\ npc = "read"
  /\ description' = normalize(description)
  /\ npc' = "done"
  /\ UNCHANGED <<text, mainVars>>

NextNorm == EvalDescription \/ NormalizeDescription

SpecNorm == InitNorm /\ [][NextNorm]_vars

\* ------------------------------------------------------------------------
\* Properties
\* ------------------------------------------------------------------------
Range(f) == {f[i] : i \in DOMAIN f}

\* a page whose extraction fails: navigation fails or a selector matches nothing
Bad(page) == ~page.reachable \/ \E i \in 1..NumKeys : page.els[i] = <<>>

\* the job scrapeJobDetails returns for a page on which nothing fails
RecordOf(page) ==
  [i \in 1..NumKeys |->
     IF i = DescriptionKey THEN normalize(Trim(Head(page.els[i])))
     ELSE Trim(Head(page.els[i]))]

\* the states of the run: Idle, BrowserOpen, LinksCollected/ExtractingRecord,
\* BrowserClosed, Exported, and Failed
Phase ==
  CASE pc \in {"idle", "launch"} -> 0
    [] pc \in {"newPage", "search", "collect"} -> 1
    [] pc \in {"goto", "wait", "eval", "close"} -> 2
    [] pc = "write" -> 3
    [] pc = "done" -> 4
    [] pc = "failed" -> 5

\* C1: no run ends in the Failed state with the browser still open: a run
\* that opened the browser closes it, also when an extraction fails.
C1_BrowserClosedOnFailure == pc = "failed" => browser # "open"

\* C2: once a link whose extraction fails has been visited, no further link
\* is visited, convertToCsv and fs.writeFile are never called, the output
\* file stays as it was before the run, and main does not complete.
C2_AbortBeforeExport ==
  \A n \in 1..Len(visited) :
    Bad(web[visited[n]]) =>
      /\ n = Len(visited)
      /\ "convertToCsv" \notin Range(log)
      /\ "writeFile" \notin Range(log)
      /\ writeResult = "none"
      /\ file = fileBefore
      /\ pc \in {"goto", "wait", "eval", "failed"}

C2_Witness ==
  /\ pc = "failed"
  /\ Len(jobDetails) >= 1
  /\ Len(visited) < Len(jobLinks)
  /\ Bad(web[visited[Len(visited)]])
  /\ file = <<OldFile>>

\* C3: the run moves through its states in order: the output file is only
\* written with the browser closed and every collected link extracted, the
\* list of links never changes once the first extraction has started, and
\* the run never goes back to an earlier state.
C3_RunOrder ==
  /\ []( ("writeFile" \in Range(log) \/ file # fileBefore) =>
           /\ browser = "closed"
           /\ idx = Len(jobLinks)
           /\ Len(jobDetails) = Len(jobLinks) )
  /\ [][visited # <<>> => jobLinks' = jobLinks]_vars
  /\ [][Phase' >= Phase]_vars

C3_Witness ==
  /\ writeResult = "ok"
  /\ file = <<csvData>>
  /\ Len(jobLinks) >= 2

\* C4: when link collection yields no link, the run still completes with
\* the export written, and the document is the header row only.
C4_EmptyExportsHeader ==
  (pc = "done" /\ jobLinks = <<>> /\ writeResult # "error") =>
    /\ file = << Join(selectors, <<",">>) >>
    /\ console = <<"success">>

\* C5: normalising a normalised description changes nothing.
C5_Idempotent == npc = "done" => normalize(description) = description

\* C6: a normalised description has no whitespace other than single spaces
\* between non-whitespace characters.
C6_NoWhitespaceRun ==
  npc = "done" =>
    \A i \in 1..Len(description) :
      description[i] \in WhiteSpace =>
        /\ description[i] = " "
        /\ i < Len(description) => description[i + 1] \notin WhiteSpace

C8_LineCount ==
  (pc \in {"write", "done"} /\ Len(jobDetails) >= 1) =>
    NumLines(csvData) = Len(jobDetails) + 1

\* C9: when fs.writeFile fails, main logs an error and completes normally,
\* and the success message is not printed.
C9_WriteFailureCaught ==
  writeResult = "error" => pc = "done" /\ console = <<"error">>

C9_Witness ==
  /\ writeResult = "error"
  /\ pc = "done"
  /\ Len(jobDetails) >= 1

\* C10: the record list holds one record per link whose extraction has
\* finished, record i being the record of link i; links are visited in list
\* order, duplicates included; at most one extraction is in progress; and
\* when the export is reached there are as many records as links.
C10_OneRecordPerLink ==
  /\ visited = SubSeq(jobLinks, 1, idx)
  /\ \A i \in 1..Len(jobDetails) : jobDetails[i] = RecordOf(web[jobLinks[i]])
  /\ IF pc \in {"goto", "wait", "eval"}
     THEN idx = Len(jobDetails) + 1
     ELSE pc # "failed" => idx = Len(jobDetails)
  /\ idx - Len(jobDetails) \in {0, 1}
  /\ "convertToCsv" \in Range(log) => Len(jobDetails) = Len(jobLinks)

C10_Witness ==
  /\ writeResult = "ok"
  /\ Len(jobDetails) = 3
  /\ jobLinks[1] = jobLinks[3]
  /\ jobLinks[1] # jobLinks[2]
  /\ jobDetails[1] # jobDetails[2]

====
